---- MODULE Spec2Model ----
(***************************************************************************)
(* Model of statistic_model_success_order_rate.py: the driver              *)
(* (main / process_multiple_files), the per-pair pipeline                  *)
(* (ModelStatisticsProcessor.run_full_process and its seven steps) and     *)
(* the FileManager that names the output directory of a run.               *)
(*                                                                         *)
(* Files are modelled by their content.  Text that goes through a CSV      *)
(* file is written as text and read back the way pandas.read_csv reads     *)
(* it: the default NA strings become NaN and a column is typed as a whole  *)
(* (int64, float64 or object).                                             *)
(***************************************************************************)
EXTENDS Integers, Sequences, FiniteSets, TLC

\* ------------------------------------------------------------------ bounds
MaxPairs == 2        \* longest --base_data / --need_statistic list
MaxLines == 2        \* most data rows of one spreadsheet sheet
MaxLookupLines == 2  \* most lines after the header of a lookup file
MaxClock == 1        \* clock seconds that can pass during one invocation
MaxNumeral == 10     \* largest number a numeric-looking model name spells

\* ------------------------------------------------------- sequences helpers
BoundedSeq(S, n) == UNION {[1..k -> S] : k \in 0..n}

Range(s) == {s[j] : j \in DOMAIN s}

RECURSIVE SeqSum(_)
SeqSum(s) == IF s = <<>> THEN 0 ELSE Head(s) + SeqSum(Tail(s))

\* ------------------------------------------------------------------ text
\* str.strip() of a source line.  A line is modelled as leading white
\* space, a body without white space at its ends, trailing white space.
RawLine(pre, body, post) == [pre |-> pre, body |-> body, post |-> post]

LineText(l) == l.pre \o l.body \o l.post

Strip(l) == l.body

\* hashlib.md5(...).hexdigest(): an injective map from identifiers to keys
\* (no collisions), spelled here as the identifier with a prefix.
generate_md5(phone_number) == "md5:" \o phone_number

\* Every model name and every text pandas can write for one, in ordinal
\* (code point) order: digits before '.', before upper-case letters.
NameOrder == <<"", "10", "10.0", "11", "11.0", "9", "9.0", "A", "B", "NA">>

Rank(s) == CHOOSE j \in 1..Len(NameOrder) : NameOrder[j] = s

\* Python's str <= str on the names of the model.
StrLE(a, b) == Rank(a) <= Rank(b)

\* ------------------------------------------------------- pandas.read_csv
\* A cell as pandas holds it: a str, an int64, a float64 or NaN.
StrV(s) == [t |-> "str", s |-> s, n |-> 0]
IntV(n) == [t |-> "int", s |-> "", n |-> n]
FloatV(n) == [t |-> "float", s |-> "", n |-> n]
NaN == [t |-> "nan", s |-> "", n |-> 0]

\* The default na_values of read_csv that occur in the model's texts.
NaValues == {"", "NA"}

IsIntText(s) == \E n \in 0..MaxNumeral : ToString(n) = s
IsFloatText(s) == \E n \in 0..MaxNumeral : ToString(n) \o ".0" = s
NumOf(s) ==
    CHOOSE n \in 0..MaxNumeral : ToString(n) = s \/ ToString(n) \o ".0" = s

\* read_csv types a column as a whole: int64 when every cell spells an
\* integer, float64 when every cell is a number or NA, else object (str,
\* with NaN for the NA cells).  A column without rows is object.
ReadCsvColumn(col) ==
    LET cells == Range(col)
        data == cells \ NaValues
    IN  IF col = <<>> THEN <<>>
        ELSE IF \A s \in cells : IsIntText(s)
        THEN [j \in DOMAIN col |-> IntV(NumOf(col[j]))]
        ELSE IF \A s \in data : IsIntText(s) \/ IsFloatText(s)
        THEN [j \in DOMAIN col |->
                 IF col[j] \in NaValues THEN NaN ELSE FloatV(NumOf(col[j]))]
        ELSE [j \in DOMAIN col |->
                 IF col[j] \in NaValues THEN NaN ELSE StrV(col[j])]

\* DataFrame.to_csv / csv.writer: the text written for a cell.
CellText(v) ==
    CASE v.t = "str" -> v.s
      [] v.t = "int" -> ToString(v.n)
      [] v.t = "float" -> ToString(v.n) \o ".0"
      [] OTHER -> ""

\* Python's == on two cells (dict keys): numbers compare by value, int or
\* float alike; a str never equals a number; NaN equals nothing.
CellEq(v, w) ==
    \/ v.t = "str" /\ w.t = "str" /\ v.s = w.s
    \/ v.t \in {"int", "float"} /\ w.t \in {"int", "float"} /\ v.n = w.n

\* The order sort_values uses inside one column: numbers by value, str by
\* code points.  All cells of a sorted column have one type (NaN dropped).
CellLE(v, w) ==
    IF v.t = "str" /\ w.t = "str" THEN StrLE(v.s, w.s) ELSE v.n <= w.n

\* ------------------------------------------------------------ Lookup Loader
\* line.strip().split('\t') of a lookup line given as its tab-separated
\* fields (none holding white space): strip() removes the tabs at both
\* ends, that is the leading and the trailing empty fields; what is left
\* of an all-blank line is one empty field.
RECURSIVE DropLeadingEmpty(_)
DropLeadingEmpty(fs) ==
    IF fs # <<>> /\ Head(fs) = "" THEN DropLeadingEmpty(Tail(fs)) ELSE fs

RECURSIVE DropTrailingEmpty(_)
DropTrailingEmpty(fs) ==
    IF fs # <<>> /\ fs[Len(fs)] = ""
    THEN DropTrailingEmpty(SubSeq(fs, 1, Len(fs) - 1))
    ELSE fs

StripSplit(fs) ==
    LET kept == DropTrailingEmpty(DropLeadingEmpty(fs))
    IN  IF kept = <<>> THEN <<"">> ELSE kept

\* md5_model_map[mobile_id] = model_name on a dict
DictPut(d, k, v) == [x \in DOMAIN d \cup {k} |-> IF x = k THEN v ELSE d[x]]

\* The for loop of load_model_mappings over the lines after the header.
RECURSIVE LoadLines(_, _)
LoadLines(lines, md5_model_map) ==
    IF lines = <<>> THEN md5_model_map
    ELSE LET parts == StripSplit(Head(lines))
         IN  LoadLines(Tail(lines),
                       IF Len(parts) >= 2
                       THEN DictPut(md5_model_map, parts[1], parts[2])
                       ELSE md5_model_map)

\* load_model_mappings on a lookup file [exists, lines]: a missing file is
\* caught and gives {}; next(f) on a file without lines raises
\* StopIteration, which nothing in the class catches.
load_model_mappings(file) ==
    IF ~file.exists THEN [raised |-> FALSE, map |-> <<>>]
    ELSE IF file.lines = <<>> THEN [raised |-> TRUE, map |-> <<>>]
    ELSE [raised |-> FALSE, map |-> LoadLines(Tail(file.lines), <<>>)]

\* ------------------------------------------------------------------ Matcher
\* ReadPhones gone wrong: an identifier already read is not read again.
RECURSIVE ReadPhonesUnique(_)
ReadPhonesUnique(lines) ==
    IF lines = <<>> THEN <<>>
    ELSE LET before == ReadPhonesUnique(SubSeq(lines, 1, Len(lines) - 1))
             phone_number == Strip(lines[Len(lines)])
         IN  IF phone_number # "" /\ phone_number \notin Range(before)
             THEN Append(before, phone_number)
             ELSE before

\* The reading loop of process_phone_data: strip, skip empty lines.
RECURSIVE ReadPhones(_)
ReadPhones(lines) ==
    IF lines = <<>> THEN <<>>
    ELSE LET phone_number == Strip(Head(lines))
         IN  IF phone_number # ""
             THEN <<phone_number>> \o ReadPhones(Tail(lines))
             ELSE ReadPhones(Tail(lines))

\* md5_model_map.get(md5_hash, "")
DictGetStr(d, k) == IF k \in DOMAIN d THEN d[k] ELSE ""

\* The matching loop: one [phone, md5, model] row per phone number.
RECURSIVE MatchPhones(_, _)
MatchPhones(phone_numbers, md5_model_map) ==
    IF phone_numbers = <<>> THEN <<>>
    ELSE LET phone == Head(phone_numbers)
             md5_hash == generate_md5(phone)
         IN  <<[phone_number |-> phone, phone_md5 |-> md5_hash,
                model_name |-> DictGetStr(md5_model_map, md5_hash)]>>
             \o MatchPhones(Tail(phone_numbers), md5_model_map)

NoFile == [exists |-> FALSE, rows |-> <<>>]
FileOf(rows) == [exists |-> TRUE, rows |-> rows]

\* process_phone_data gone wrong: the empty table is not checked for, so a
\* lookup file that is not there yields a match file of unmatched records.
process_phone_data_NoCheck(phone_csv, lookup, old) ==
    IF ~phone_csv.exists
    THEN [ret |-> "false", out |-> old, map |-> <<>>, loaded |-> FALSE]
    ELSE LET phone_numbers == ReadPhones(phone_csv.rows)
             loaded == load_model_mappings(lookup)
         IN  IF loaded.raised
             THEN [ret |-> "raise", out |-> old, map |-> <<>>,
                   loaded |-> FALSE]
             ELSE [ret |-> "true",
                   out |-> FileOf(MatchPhones(phone_numbers, loaded.map)),
                   map |-> loaded.map, loaded |-> TRUE]

\* process_phone_data(phone_csv_file, output_csv_file): ret is "true",
\* "false" or "raise"; out is the output file afterwards (old when nothing
\* was written); map is the table the call loaded.
process_phone_data(phone_csv, lookup, old) ==
    IF ~phone_csv.exists
    THEN [ret |-> "false", out |-> old, map |-> <<>>, loaded |-> FALSE]
    ELSE LET phone_numbers == ReadPhones(phone_csv.rows)
             loaded == load_model_mappings(lookup)
         IN  IF loaded.raised
             THEN [ret |-> "raise", out |-> old, map |-> <<>>,
                   loaded |-> FALSE]
             ELSE IF loaded.map = <<>>
             THEN [ret |-> "false", out |-> old, map |-> <<>>,
                   loaded |-> TRUE]
             ELSE [ret |-> "true",
                   out |-> FileOf(MatchPhones(phone_numbers, loaded.map)),
                   map |-> loaded.map, loaded |-> TRUE]

\* --------------------------------------------------------------- Aggregator
\* Series.value_counts(): NaN dropped, one count per distinct value.
ValueCounts(cells) ==
    LET vals == {cells[j] : j \in DOMAIN cells} \ {NaN}
    IN  {[key |-> v,
          count |-> Cardinality({j \in DOMAIN cells : cells[j] = v})] :
            v \in vals}

\* DataFrame.sort_values on the key column of rows with distinct keys.
RECURSIVE SortRows(_)
SortRows(rows) ==
    IF rows = {} THEN <<>>
    ELSE LET least == CHOOSE r \in rows :
                         \A q \in rows : CellLE(r.key, q.key)
         IN  <<least>> \o SortRows(rows \ {least})

\* df[df['model_name'] != '']: NaN != '' is True, so only a str cell that
\* is empty would be masked out (read_csv never yields one).
MaskNotEmpty(cells) == SelectSeq(cells, LAMBDA v : ~(v.t = "str" /\ v.s = ""))

\* count_data_by_model(input_file, output_file)
count_data_by_model(input, old) ==
    IF ~input.exists THEN [ret |-> "false", out |-> old]
    ELSE LET col == [j \in DOMAIN input.rows |-> input.rows[j].model_name]
             df == ReadCsvColumn(col)
             model_counts == ValueCounts(MaskNotEmpty(df))
             count_df == SortRows(model_counts)
         IN  [ret |-> "true",
              out |-> FileOf([j \in DOMAIN count_df |->
                                [model_name |-> CellText(count_df[j].key),
                                 count |-> count_df[j].count]])]

\* ---------------------------------------------------------- Rate Calculator
\* dict(zip(df['model_name'], df['count'])) as a sequence of [key, count]
\* items in insertion order: a later equal key overwrites the value of the
\* earlier item and keeps its place.
RECURSIVE DictOfZip(_, _)
DictOfZip(keys, counts) ==
    IF keys = <<>> THEN <<>>
    ELSE LET n == Len(keys)
             before == DictOfZip(SubSeq(keys, 1, n - 1),
                                 SubSeq(counts, 1, n - 1))
         IN  IF \E j \in DOMAIN before : CellEq(before[j].key, keys[n])
             THEN [j \in DOMAIN before |->
                      IF CellEq(before[j].key, keys[n])
                      THEN [key |-> before[j].key, count |-> counts[n]]
                      ELSE before[j]]
             ELSE Append(before, [key |-> keys[n], count |-> counts[n]])

\* a_intention_dict.get(model_name, 0)
DictGetCount(items, k) ==
    IF \E j \in DOMAIN items : CellEq(items[j].key, k)
    THEN items[CHOOSE j \in DOMAIN items : CellEq(items[j].key, k)].count
    ELSE 0

\* f"{a / c * 100:.2f}%" as hundredths of a percent, rounded to the nearest
\* (ties to even); 0 when the connect count is not positive.
RatePercent(a_intention_count, call_connect_count) ==
    IF call_connect_count > 0
    THEN LET num == a_intention_count * 10000
             q == num \div call_connect_count
             r == num % call_connect_count
         IN  IF 2 * r > call_connect_count
                \/ (2 * r = call_connect_count /\ q % 2 = 1)
             THEN q + 1 ELSE q
    ELSE 0

\* A count file as read_csv gives it: the typed model_name column and the
\* count column.
ReadCountFile(file) ==
    [keys |-> ReadCsvColumn([j \in DOMAIN file.rows |->
                                file.rows[j].model_name]),
     counts |-> [j \in DOMAIN file.rows |-> file.rows[j].count]]

\* ResultRows gone wrong: a full outer join, with a row of connect count 0
\* for a model only the intention table has.
ResultRowsOuterJoin(call_connect_dict, a_intention_dict) ==
    {[key |-> call_connect_dict[j].key,
      a_intention_count |->
          DictGetCount(a_intention_dict, call_connect_dict[j].key),
      call_connect_count |-> call_connect_dict[j].count] :
        j \in DOMAIN call_connect_dict}
    \cup {[key |-> a_intention_dict[j].key,
           a_intention_count |-> a_intention_dict[j].count,
           call_connect_count |-> 0] :
             j \in {k \in DOMAIN a_intention_dict :
                       DictGetCount(call_connect_dict,
                                    a_intention_dict[k].key) = 0}}

\* The for loop over call_connect_dict.items().
ResultRows(call_connect_dict, a_intention_dict) ==
    {[key |-> call_connect_dict[j].key,
      a_intention_count |->
          DictGetCount(a_intention_dict, call_connect_dict[j].key),
      call_connect_count |-> call_connect_dict[j].count] :
        j \in DOMAIN call_connect_dict}

\* calculate_order_success_rate(): read_csv of a missing count file and
\* sort_values('model_name') on the column-less DataFrame built from an
\* empty results list both raise inside the try, and the except returns
\* False before anything is written.
calculate_order_success_rate(a_count_csv, c_count_csv, old) ==
    IF ~a_count_csv.exists \/ ~c_count_csv.exists
    THEN [ret |-> "false", out |-> old]
    ELSE LET a_intention_df == ReadCountFile(a_count_csv)
             call_connect_df == ReadCountFile(c_count_csv)
             a_intention_dict ==
                 DictOfZip(a_intention_df.keys, a_intention_df.counts)
             call_connect_dict ==
                 DictOfZip(call_connect_df.keys, call_connect_df.counts)
             results == ResultRows(call_connect_dict, a_intention_dict)
             results_df == SortRows(results)
         IN  IF results = {} THEN [ret |-> "false", out |-> old]
             ELSE [ret |-> "true",
                   out |-> FileOf([j \in DOMAIN results_df |->
                       [model_name |-> CellText(results_df[j].key),
                        a_intention_count |->
                            results_df[j].a_intention_count,
                        call_connect_count |->
                            results_df[j].call_connect_count,
                        order_success_rate |->
                            RatePercent(results_df[j].a_intention_count,
                                        results_df[j].call_connect_count)]])]

\* ------------------------------------------------------------- FileManager
\* FileManager._create_unique_output_dir: prefix, the clock to the second
\* and the hash of "<base>_<excel>" (the [:8] cut is taken as free of
\* collisions).
create_unique_output_dir(prefix, now, base_data_file, excel_file) ==
    [prefix |-> prefix, timestamp |-> now,
     file_hash |-> generate_md5(base_data_file \o "_" \o excel_file)]

\* The files of an output directory right after os.makedirs made it.
EmptyDir ==
    [call_connect_csv |-> NoFile, a_intention_csv |-> NoFile,
     call_connect_model_csv |-> NoFile, call_connect_count_csv |-> NoFile,
     a_intention_model_csv |-> NoFile, a_intention_count_csv |-> NoFile,
     final_output_file |-> NoFile, processing_info_file |-> NoFile]

NoDir == [prefix |-> "", timestamp |-> 0, file_hash |-> ""]
NoFM == [base_data_file |-> "", excel_file |-> "", output_dir |-> NoDir]

\* FileManager.__init__
FileManager(base_data_file, excel_file, output_prefix, now) ==
    [base_data_file |-> base_data_file, excel_file |-> excel_file,
     output_dir |-> create_unique_output_dir(output_prefix, now,
                                             base_data_file, excel_file)]

\* FileManager.write_processing_info: the Status line and the inputs.
write_processing_info(f, success) ==
    FileOf(<<[status |-> IF success THEN "SUCCESS" ELSE "FAILED",
              base_data_file |-> f.base_data_file,
              excel_file |-> f.excel_file]>>)

\* ------------------------------------------------------------------ state
VARIABLES
    base_data_files,       \* args.base_data
    need_statistic_files,  \* args.need_statistic
    base_fs,               \* the lookup files that exist: name -> lines
    excel_fs,              \* the workbooks that exist: name -> workbook
    clock,                 \* datetime.now(), in seconds
    out,                   \* the output directories: dir -> its files
    pc,                    \* where the program is
    i,                     \* the loop index of process_multiple_files
    fm,                    \* the FileManager of the pair being processed
    success,               \* the local of run_full_process
    result,                \* how run_full_process ended: true/false/raise
    md5_model_map,         \* the table the last load_model_mappings built
    output_directories,    \* the list process_multiple_files returns
    exit_code,             \* the status the process exits with (-1: none)
    runs                   \* history: one record per loop iteration

vars == <<base_data_files, need_statistic_files, base_fs, excel_fs, clock,
          out, pc, i, fm, success, result, md5_model_map,
          output_directories, exit_code, runs>>

output_prefix == "results"

\* os.path.exists
BaseExists(name) == name \in DOMAIN base_fs
ExcelExists(name) == name \in DOMAIN excel_fs

\* The lookup file as open() finds it.
LookupFile(name) ==
    IF BaseExists(name) THEN [exists |-> TRUE, lines |-> base_fs[name]]
    ELSE [exists |-> FALSE, lines |-> <<>>]

Files == out[fm.output_dir]

\* One file of the current output directory replaced.
WriteFile(name, file) ==
    [out EXCEPT ![fm.output_dir] = [@ EXCEPT ![name] = file]]

\* The history record of the pair being processed, and its update.
Cur == runs[Len(runs)]
Logged(step, ret) ==
    [runs EXCEPT ![Len(runs)].steps = Append(@, [step |-> step, ret |-> ret])]

\* ---------------------------------------------------------------- actions
\* main() up to the loop of process_multiple_files: lists of different
\* lengths make process_multiple_files return [] at once.
Main ==
    /\ pc = "main"
    /\ IF Len(base_data_files) # Len(need_statistic_files)
       THEN pc' = "summary" /\ UNCHANGED i
       ELSE pc' = "loop" /\ i' = 1
    /\ UNCHANGED <<base_data_files, need_statistic_files, base_fs, excel_fs,
                   clock, out, fm, success, result, md5_model_map,
                   output_directories, exit_code, runs>>

NewRun(base_data_file, excel_file, dir, outcome) ==
    [index |-> i, base_data_file |-> base_data_file,
     excel_file |-> excel_file, output_dir |-> dir, steps |-> <<>>,
     info |-> "none", outcome |-> outcome]

\* One turn of the for loop of process_multiple_files, up to the first
\* step of run_full_process: the loop ends, or the pair is skipped for a
\* missing input, or its FileManager is built (the directory is made with
\* exist_ok=True, so an existing one is kept as it is) and the run starts
\* with success = True.
LoopNext ==
    /\ pc = "loop"
    /\ IF i > Len(base_data_files)
       THEN /\ pc' = "summary"
            /\ UNCHANGED <<i, fm, out, success, result, runs>>
       ELSE LET base_data_file == base_data_files[i]
                excel_file == need_statistic_files[i]
                file_manager == FileManager(base_data_file, excel_file,
                                            output_prefix, clock)
                dir == file_manager.output_dir
            IN  IF ~BaseExists(base_data_file) \/ ~ExcelExists(excel_file)
                THEN /\ i' = i + 1
                     /\ runs' = Append(runs, NewRun(base_data_file,
                                           excel_file, NoDir, "skipped"))
                     /\ UNCHANGED <<pc, fm, out, success, result>>
                ELSE /\ fm' = file_manager
                     /\ out' = IF dir \in DOMAIN out THEN out
                               ELSE out @@ (dir :> EmptyDir)
                     /\ success' = TRUE
                     /\ result' = "none"
                     /\ pc' = "step1"
                     /\ runs' = Append(runs, NewRun(base_data_file,
                                           excel_file, dir, "running"))
                     /\ UNCHANGED i
    /\ UNCHANGED <<base_data_files, need_statistic_files, base_fs, excel_fs,
                   clock, md5_model_map, output_directories, exit_code>>

\* StepEnds gone wrong: the early return False leaves run_full_process
\* without passing through the finally clause.
StepEndsEarlyReturn(step, ret, next) ==
    /\ runs' = Logged(step, ret)
    /\ CASE ret = "true" /\ next # "finally" ->
                pc' = next /\ UNCHANGED <<success, result>>
         [] ret = "true" /\ next = "finally" ->
                pc' = "finally" /\ result' = "true" /\ UNCHANGED success
         [] ret = "false" ->
                pc' = "returned" /\ success' = FALSE /\ result' = "false"
         [] OTHER ->
                pc' = "finally" /\ result' = "raise" /\ UNCHANGED success

\* StepEnds gone wrong: a step that returned False is followed by the next
\* step all the same.
StepEndsCarryOn(step, ret, next) ==
    /\ runs' = Logged(step, ret)
    /\ CASE ret = "true" /\ next # "finally" ->
                pc' = next /\ UNCHANGED <<success, result>>
         [] ret = "true" /\ next = "finally" ->
                pc' = "finally" /\ result' = "true" /\ UNCHANGED success
         [] ret = "false" ->
                pc' = next /\ success' = FALSE /\ result' = "false"
         [] OTHER ->
                pc' = "finally" /\ result' = "raise" /\ UNCHANGED success

\* How a step of run_full_process hands on: True goes to the next step; on
\* False success is cleared and the function returns False; an exception
\* leaves success as it is.  Either way the finally clause comes next.
StepEnds(step, ret, next) ==
    /\ runs' = Logged(step, ret)
    /\ CASE ret = "true" /\ next # "finally" ->
                pc' = next /\ UNCHANGED <<success, result>>
         [] ret = "true" /\ next = "finally" ->
                pc' = "finally" /\ result' = "true" /\ UNCHANGED success
         [] ret = "false" ->
                pc' = "finally" /\ success' = FALSE /\ result' = "false"
         [] OTHER ->
                pc' = "finally" /\ result' = "raise" /\ UNCHANGED success

\* Step 1, check_excel_sheets.
check_excel_sheets ==
    IF ~ExcelExists(fm.excel_file) THEN "false"
    ELSE IF ~excel_fs[fm.excel_file].readable THEN "false"
    ELSE "true"

Step1 ==
    /\ pc = "step1"
    /\ StepEnds(1, check_excel_sheets, "step2")
    /\ UNCHANGED <<base_data_files, need_statistic_files, base_fs, excel_fs,
                   clock, out, i, fm, md5_model_map, output_directories,
                   exit_code>>

\* read_excel(..., skiprows=1): the rows after the first.
SkipFirstRow(rows) == IF rows = <<>> THEN <<>> ELSE Tail(rows)

\* Step 2, convert_excel_to_csv: both sheets are read before either CSV
\* file is written; a missing sheet raises inside the try.
convert_excel_to_csv ==
    IF ~ExcelExists(fm.excel_file) THEN [ret |-> "false", out |-> out]
    ELSE LET book == excel_fs[fm.excel_file]
         IN  IF ~book.readable \/ "connect" \notin DOMAIN book.sheets
                \/ "A" \notin DOMAIN book.sheets
             THEN [ret |-> "false", out |-> out]
             ELSE [ret |-> "true",
                   out |-> [out EXCEPT ![fm.output_dir] =
                       [@ EXCEPT
                          !.call_connect_csv =
                              FileOf(SkipFirstRow(book.sheets["connect"])),
                          !.a_intention_csv = FileOf(book.sheets["A"])]]]

Step2 ==
    /\ pc = "step2"
    /\ LET r == convert_excel_to_csv
       IN  out' = r.out /\ StepEnds(2, r.ret, "step3")
    /\ UNCHANGED <<base_data_files, need_statistic_files, base_fs, excel_fs,
                   clock, i, fm, md5_model_map, output_directories,
                   exit_code>>

\* Step 3, process_phone_data on the call_connect rows.
Step3 ==
    /\ pc = "step3"
    /\ LET r == process_phone_data(Files.call_connect_csv,
                                   LookupFile(fm.base_data_file),
                                   Files.call_connect_model_csv)
       IN  /\ out' = WriteFile("call_connect_model_csv", r.out)
           /\ md5_model_map' = r.map
           /\ StepEnds(3, r.ret, "step4")
    /\ UNCHANGED <<base_data_files, need_statistic_files, base_fs, excel_fs,
                   clock, i, fm, output_directories, exit_code>>

\* Step 4, count_data_by_model on the call_connect matches.
Step4 ==
    /\ pc = "step4"
    /\ LET r == count_data_by_model(Files.call_connect_model_csv,
                                    Files.call_connect_count_csv)
       IN  /\ out' = WriteFile("call_connect_count_csv", r.out)
           /\ StepEnds(4, r.ret, "step5")
    /\ UNCHANGED <<base_data_files, need_statistic_files, base_fs, excel_fs,
                   clock, i, fm, md5_model_map, output_directories,
                   exit_code>>

\* Step 5, process_phone_data on the A_intention rows.
Step5 ==
    /\ pc = "step5"
    /\ LET r == process_phone_data(Files.a_intention_csv,
                                   LookupFile(fm.base_data_file),
                                   Files.a_intention_model_csv)
       IN  /\ out' = WriteFile("a_intention_model_csv", r.out)
           /\ md5_model_map' = r.map
           /\ StepEnds(5, r.ret, "step6")
    /\ UNCHANGED <<base_data_files, need_statistic_files, base_fs, excel_fs,
                   clock, i, fm, output_directories, exit_code>>

\* Step 6, count_data_by_model on the A_intention matches.
Step6 ==
    /\ pc = "step6"
    /\ LET r == count_data_by_model(Files.a_intention_model_csv,
                                    Files.a_intention_count_csv)
       IN  /\ out' = WriteFile("a_intention_count_csv", r.out)
           /\ StepEnds(6, r.ret, "step7")
    /\ UNCHANGED <<base_data_files, need_statistic_files, base_fs, excel_fs,
                   clock, i, fm, md5_model_map, output_directories,
                   exit_code>>

\* Step 7, calculate_order_success_rate.
Step7 ==
    /\ pc = "step7"
    /\ LET r == calculate_order_success_rate(Files.a_intention_count_csv,
                                             Files.call_connect_count_csv,
                                             Files.final_output_file)
       IN  /\ out' = WriteFile("final_output_file", r.out)
           /\ StepEnds(7, r.ret, "finally")
    /\ UNCHANGED <<base_data_files, need_statistic_files, base_fs, excel_fs,
                   clock, i, fm, md5_model_map, output_directories,
                   exit_code>>

\* The finally clause of run_full_process.
Finally ==
    /\ pc = "finally"
    /\ out' = WriteFile("processing_info_file",
                        write_processing_info(fm, success))
    /\ runs' = [runs EXCEPT ![Len(runs)].info =
                   IF success THEN "SUCCESS" ELSE "FAILED"]
    /\ pc' = "returned"
    /\ UNCHANGED <<base_data_files, need_statistic_files, base_fs, excel_fs,
                   clock, i, fm, success, result, md5_model_map,
                   output_directories, exit_code>>

\* run_full_process hands control back to process_multiple_files: an
\* exception is caught neither there nor in main, so the interpreter ends
\* with a traceback and status 1; otherwise the directory of a successful
\* run is appended and the loop goes on.
AfterRun ==
    /\ pc = "returned"
    /\ runs' = [runs EXCEPT ![Len(runs)].outcome = result]
    /\ IF result = "raise"
       THEN /\ pc' = "exit"
            /\ exit_code' = 1
            /\ UNCHANGED <<i, output_directories>>
       ELSE /\ output_directories' =
                  IF result = "true"
                  THEN Append(output_directories, fm.output_dir)
                  ELSE output_directories
            /\ i' = i + 1
            /\ pc' = "loop"
            /\ UNCHANGED exit_code
    /\ UNCHANGED <<base_data_files, need_statistic_files, base_fs, excel_fs,
                   clock, out, fm, success, result, md5_model_map>>

\* The final summary of main and its return value, the exit status.
Summary ==
    /\ pc = "summary"
    /\ exit_code' = IF output_directories # <<>> THEN 0 ELSE 1
    /\ pc' = "exit"
    /\ UNCHANGED <<base_data_files, need_statistic_files, base_fs, excel_fs,
                   clock, out, i, fm, success, result, md5_model_map,
                   output_directories, runs>>

\* ------------------------------------------------------------ environment
\* A second passes.  The clock is read when a FileManager is built, so
\* time passing anywhere else shows no differently.
Tick ==
    /\ pc = "loop"
    /\ clock < MaxClock
    /\ clock' = clock + 1
    /\ UNCHANGED <<base_data_files, need_statistic_files, base_fs, excel_fs,
                   out, pc, i, fm, success, result, md5_model_map,
                   output_directories, exit_code, runs>>

\* Something outside the program removes the lookup file of the pair in
\* turn: before the pair is looked at, or between the existence check of
\* process_multiple_files and one of the two reads of the file.
Unlink ==
    /\ \/ pc = "loop" /\ i <= Len(base_data_files)
          /\ BaseExists(base_data_files[i])
          /\ base_fs' = [b \in DOMAIN base_fs \ {base_data_files[i]} |->
                            base_fs[b]]
       \/ pc \in {"step3", "step5"}
          /\ BaseExists(fm.base_data_file)
          /\ base_fs' = [b \in DOMAIN base_fs \ {fm.base_data_file} |->
                            base_fs[b]]
    /\ UNCHANGED <<base_data_files, need_statistic_files, excel_fs, clock,
                   out, pc, i, fm, success, result, md5_model_map,
                   output_directories, exit_code, runs>>

Program ==
    \/ Main \/ LoopNext \/ Step1 \/ Step2 \/ Step3 \/ Step4 \/ Step5
    \/ Step6 \/ Step7 \/ Finally \/ AfterRun \/ Summary

Next == Program \/ Tick \/ Unlink

\* ----------------------------------------------------------- initial states
Phones == {"111", "222"}
Models == {"A", "B", "NA", "9", "10"}

HeaderLine == <<"mobile_id_md5", "model_name">>
TitleRow == RawLine("", "phone", "")

Workbook(connect, a) ==
    [readable |-> TRUE, sheets |-> ("connect" :> connect) @@ ("A" :> a)]

\* The state main() starts in, for given arguments and input files.
Start(bases, excels, bfs, xfs) ==
    /\ base_data_files = bases
    /\ need_statistic_files = excels
    /\ base_fs = bfs
    /\ excel_fs = xfs
    /\ clock = 0
    /\ out = <<>>
    /\ pc = "main"
    /\ i = 0
    /\ fm = NoFM
    /\ success = TRUE
    /\ result = "none"
    /\ md5_model_map = <<>>
    /\ output_directories = <<>>
    /\ exit_code = -1
    /\ runs = <<>>

\* The driver: any two argument lists over a fixed set of input files, of
\* which missing.txt and missing.xlsx do not exist, empty.txt has no line
\* at all, corrupt.xlsx is no workbook and blank.xlsx has no data row in
\* its connect sheet.
BaseNames == {"missing.txt", "empty.txt", "good.txt"}
ExcelNames == {"missing.xlsx", "corrupt.xlsx", "blank.xlsx", "good.xlsx"}

BaseCatalog ==
    ("empty.txt" :> <<>>)
    @@ ("good.txt" :> <<HeaderLine, <<generate_md5("111"), "A">>,
                        <<generate_md5("222"), "B">> >>)

ExcelCatalog ==
    ("corrupt.xlsx" :> [readable |-> FALSE, sheets |-> <<>>])
    @@ ("blank.xlsx" :>
            Workbook(<<TitleRow>>, <<RawLine("", "111", "")>>))
    @@ ("good.xlsx" :>
            Workbook(<<TitleRow, RawLine("", "111", ""),
                       RawLine("", "222", "")>>,
                     <<RawLine("", "111", "")>>))

Init ==
    \E bases \in BoundedSeq(BaseNames, MaxPairs) \ {<<>>},
       excels \in BoundedSeq(ExcelNames, MaxPairs) \ {<<>>} :
        Start(bases, excels, BaseCatalog, ExcelCatalog)

Spec == Init /\ [][Next]_vars

\* The pipeline on data: one pair, whose lookup table maps each phone's
\* key to any model or to none, and whose two sheets hold any rows.
RawLines ==
    {RawLine("", "111", ""), RawLine(" ", "222", " "), RawLine(" ", "", "")}

NoEntry == "(none)"

TableLines(t) ==
    <<HeaderLine>>
    \o (IF t["111"] = NoEntry THEN <<>>
        ELSE << <<generate_md5("111"), t["111"]>> >>)
    \o (IF t["222"] = NoEntry THEN <<>>
        ELSE << <<generate_md5("222"), t["222"]>> >>)

InitData ==
    \E t \in [Phones -> Models \cup {NoEntry}],
       connect \in BoundedSeq(RawLines, MaxLines),
       a \in BoundedSeq(RawLines, MaxLines) :
        Start(<<"base.txt">>, <<"data.xlsx">>,
              "base.txt" :> TableLines(t),
              "data.xlsx" :> Workbook(<<TitleRow>> \o connect, a))

SpecData == InitData /\ [][Program]_vars

\* The Lookup Loader on lookup files: one pair, whose lookup file holds
\* any lines (none at all included).
LookupLineSet ==
    {<<"">>, <<generate_md5("111")>>, <<generate_md5("111"), "">>,
     <<"", "A">>, <<generate_md5("111"), "B", "x">>,
     <<generate_md5("222"), "", "x">>}
    \cup {<<generate_md5(p), m>> : p \in Phones, m \in {"A", "B"}}

InitLoad ==
    \E lines \in BoundedSeq(LookupLineSet, MaxLookupLines + 1) :
        Start(<<"base.txt">>, <<"data.xlsx">>,
              "base.txt" :> lines,
              "data.xlsx" :> Workbook(<<TitleRow, RawLine("", "111", ""),
                                        RawLine(" ", "222", " ")>>,
                                      <<RawLine("", "222", "")>>))

SpecLoad == InitLoad /\ [][Program]_vars

\* ------------------------------------------------------------------ claims
\* The runs that handed control back to process_multiple_files.
Returned(r) == r.outcome \in {"true", "false", "raise"}

\* The step records of the current pair say step k ran and returned True.
StepTrue(k) == Len(runs) > 0 /\ Len(Cur.steps) >= k /\ Cur.steps[k].ret = "true"

ModelNames(file) == {file.rows[j].model_name : j \in DOMAIN file.rows}

\* C1: when the program has ended, every queued pair was attempted (looked
\* at by the loop of process_multiple_files), whatever happened to the
\* pairs before it.
C1_EveryPairAttempted ==
    (pc = "exit" /\ Len(base_data_files) = Len(need_statistic_files))
        => Len(runs) = Len(base_data_files)

\* C2: an empty frequency table, of the connect or of the intention
\* source, is no failure: once both tables are counted, step 7 succeeds
\* and the report is written.
C2_EmptySourceSucceeds ==
    (/\ Len(runs) > 0 /\ Len(Cur.steps) = 7
     /\ \/ Files.call_connect_count_csv.rows = <<>>
        \/ Files.a_intention_count_csv.rows = <<>>)
        => Cur.steps[7].ret = "true" /\ Files.final_output_file.exists

\* C3: a run that handed control back, by return or by exception, has had
\* write_processing_info invoked, and the info file is there the moment
\* run_full_process is left.
C3_InfoBeforeReturn ==
    /\ \A j \in DOMAIN runs : Returned(runs[j]) => runs[j].info # "none"
    /\ pc = "returned" =>
           Cur.info # "none" /\ Files.processing_info_file.exists

\* C3 witness: a pair failed in a step and its metadata was recorded.
C3_Witness ==
    \E j \in DOMAIN runs :
        runs[j].outcome = "false" /\ runs[j].info = "FAILED"

\* C4: the exit status is 0 exactly when some pair's run_full_process
\* returned True, and 1 otherwise.
C4_ExitCode ==
    pc = "exit" =>
        exit_code = IF \E j \in DOMAIN runs :
                          Len(runs[j].steps) = 7
                          /\ runs[j].steps[7].ret = "true"
                    THEN 0 ELSE 1

\* C5: the report written by step 7 has exactly the models of the connect
\* frequency table, one row each, so a model that only the intention table
\* has is not in it.
C5_OneSidedJoin ==
    StepTrue(7) =>
        /\ ModelNames(Files.final_output_file)
               = ModelNames(Files.call_connect_count_csv)
        /\ Len(Files.final_output_file.rows)
               = Len(Files.call_connect_count_csv.rows)
        /\ \A j, k \in DOMAIN Files.final_output_file.rows :
               Files.final_output_file.rows[j].model_name
                   = Files.final_output_file.rows[k].model_name => j = k

\* C5 witness: a report was written while the intention table held a model
\* the connect table lacks.
C5_Witness ==
    /\ StepTrue(7)
    /\ \E m \in ModelNames(Files.a_intention_count_csv) :
           m \notin ModelNames(Files.call_connect_count_csv)

\* C6: every row of the report carries the connect table's count of its
\* model, which is at least 1, and the intention table's count of that
\* model when the intention table has the model; with an empty intention
\* table the count and the rate are 0.
C6_CountsFromTables ==
    StepTrue(7) =>
        \A j \in DOMAIN Files.final_output_file.rows :
            LET r == Files.final_output_file.rows[j]
            IN  /\ r.call_connect_count >= 1
                /\ \E k \in DOMAIN Files.call_connect_count_csv.rows :
                       Files.call_connect_count_csv.rows[k]
                           = [model_name |-> r.model_name,
                              count |-> r.call_connect_count]
                /\ \A k \in DOMAIN Files.a_intention_count_csv.rows :
                       LET e == Files.a_intention_count_csv.rows[k]
                       IN  e.model_name = r.model_name
                               => r.a_intention_count = e.count
                /\ Files.a_intention_count_csv.rows = <<>>
                       => r.a_intention_count = 0 /\ r.order_success_rate = 0

SortedByName(file) ==
    \A j \in 1..(Len(file.rows) - 1) :
        StrLE(file.rows[j].model_name, file.rows[j + 1].model_name)

\* C7: the two frequency files and the report are non-decreasing by model
\* name, compared as text.
C7_SortedByName ==
    Len(runs) > 0 =>
        /\ SortedByName(Files.call_connect_count_csv)
        /\ SortedByName(Files.a_intention_count_csv)
        /\ SortedByName(Files.final_output_file)

\* The FrequencyTable of a match file: one entry per distinct non-empty
\* model name, with the number of records that carry it.
IsFrequencyTableOf(counts, matches) ==
    /\ ModelNames(counts) = ModelNames(matches) \ {""}
    /\ \A j, k \in DOMAIN counts.rows :
           counts.rows[j].model_name = counts.rows[k].model_name => j = k
    /\ \A j \in DOMAIN counts.rows :
           counts.rows[j].count =
               Cardinality({k \in DOMAIN matches.rows :
                   matches.rows[k].model_name = counts.rows[j].model_name})
    /\ SeqSum([j \in DOMAIN counts.rows |-> counts.rows[j].count])
           <= Len(matches.rows)
    /\ (SeqSum([j \in DOMAIN counts.rows |-> counts.rows[j].count])
            = Len(matches.rows))
           <=> (\A k \in DOMAIN matches.rows :
                    matches.rows[k].model_name # "")

\* C8: the frequency file count_data_by_model writes is the
\* FrequencyTable of the match file it read.
C8_FrequencyTable ==
    /\ StepTrue(4) => IsFrequencyTableOf(Files.call_connect_count_csv,
                                         Files.call_connect_model_csv)
    /\ StepTrue(6) => IsFrequencyTableOf(Files.a_intention_count_csv,
                                         Files.a_intention_model_csv)

\* The MatchedRecords of a source under a table: one per line that is not
\* empty after trimming, in line order, with the key hash(identifier) and
\* the table's model for the key, or "".
IsMatchOf(matches, source, table) ==
    LET kept == SelectSeq(source.rows, LAMBDA l : l.body # "")
    IN  /\ matches.exists
        /\ Len(matches.rows) = Len(kept)
        /\ \A j \in DOMAIN kept :
               /\ matches.rows[j].phone_number = kept[j].body
               /\ matches.rows[j].phone_md5 = "md5:" \o kept[j].body
               /\ matches.rows[j].model_name =
                      IF matches.rows[j].phone_md5 \in DOMAIN table
                      THEN table[matches.rows[j].phone_md5] ELSE ""

\* The table of a lookup file: the first line skipped, the lines of fewer
\* than two fields skipped, each key mapped by the last line that has it.
WellFormed(line) == Len(StripSplit(line)) >= 2

IsTableOf(table, lines) ==
    LET data == {j \in 2..Len(lines) : WellFormed(lines[j])}
    IN  /\ DOMAIN table = {StripSplit(lines[j])[1] : j \in data}
        /\ \A j \in data :
               (\A k \in data : k > j =>
                    StripSplit(lines[k])[1] # StripSplit(lines[j])[1])
               => table[StripSplit(lines[j])[1]] = StripSplit(lines[j])[2]

\* C9: a process_phone_data that went through loaded a non-empty table,
\* the table of the lookup file, and wrote the MatchedRecords of its source
\* under that table.
C9_MatchedRecords ==
    /\ pc = "step4" =>
           /\ md5_model_map # <<>>
           /\ IsTableOf(md5_model_map, base_fs[fm.base_data_file])
           /\ IsMatchOf(Files.call_connect_model_csv, Files.call_connect_csv,
                        md5_model_map)
    /\ pc = "step6" =>
           /\ md5_model_map # <<>>
           /\ IsTableOf(md5_model_map, base_fs[fm.base_data_file])
           /\ IsMatchOf(Files.a_intention_model_csv, Files.a_intention_csv,
                        md5_model_map)

\* C9 witness: matched and written, with a repeated identifier kept twice.
C9_Witness ==
    /\ pc = "step4"
    /\ \E j, k \in DOMAIN Files.call_connect_model_csv.rows :
           j # k /\ Files.call_connect_model_csv.rows[j].phone_number
                      = Files.call_connect_model_csv.rows[k].phone_number

\* C10: the table loaded is the table of the lookup file, and a lookup
\* file that has a header and data lines never makes the match step fail,
\* malformed as its lines may be.
C10_LoadRecoversLocally ==
    /\ pc = "step4" => IsTableOf(md5_model_map, base_fs[fm.base_data_file])
    /\ (/\ Len(runs) > 0 /\ Len(Cur.steps) >= 3
        /\ Len(base_fs[fm.base_data_file]) >= 2)
           => Cur.steps[3].ret = "true"

\* The first half of C10 alone, which the code keeps.
C10_TableOfFile ==
    pc \in {"step4", "step6"}
        => IsTableOf(md5_model_map, base_fs[fm.base_data_file])

\* The five files the aggregation of a pair writes, as they are in the
\* directory of the current pair within the file system o.
AggregatesOf(o) ==
    LET f == o[fm.output_dir]
    IN  <<f.call_connect_model_csv, f.call_connect_count_csv,
          f.a_intention_model_csv, f.a_intention_count_csv,
          f.final_output_file>>

\* The current pair has left its steps on a match step that found the
\* lookup file gone.
LoadFailed ==
    /\ pc \in {"finally", "returned"}
    /\ Len(Cur.steps) \in {3, 5}
    /\ Cur.steps[Len(Cur.steps)].ret = "false"
    /\ ~BaseExists(fm.base_data_file)

\* C11: a match step that finds the lookup file gone writes nothing and
\* makes run_full_process return False; from then until the pair is over
\* no match file, frequency file or report is written, and the pair is
\* recorded FAILED, returns False and is not listed among the successes.
C11_FailedLoadIsFatal ==
    [][/\ (pc \in {"step3", "step5"} /\ ~BaseExists(fm.base_data_file))
           => /\ pc' = "finally" /\ result' = "false" /\ ~success'
              /\ out' = out
       /\ LoadFailed
           => /\ AggregatesOf(out') = AggregatesOf(out)
              /\ result' = "false"
              /\ output_directories' = output_directories
              /\ pc' = "returned" => runs'[Len(runs')].info = "FAILED"
              /\ pc' = "loop" => /\ runs'[Len(runs')].outcome = "false"
                                 /\ runs'[Len(runs')].info = "FAILED"]_vars

\* C11 witness: the lookup file went between the two match steps, so the
\* connect files are there and the pair was left with no intention file.
C11_Witness ==
    /\ LoadFailed /\ pc = "returned" /\ Len(Cur.steps) = 5
    /\ Files.call_connect_count_csv.exists
    /\ ~Files.a_intention_model_csv.exists
    /\ ~Files.final_output_file.exists
    /\ Cur.info = "FAILED"

\* Where control is while step k of run_full_process is about to run.
StepPc == <<"step1", "step2", "step3", "step4", "step5", "step6", "step7">>

\* C12: the steps a pair has run are steps 1, 2, ... in that order with no
\* gap and no repeat, every step but the last one run returned True, and
\* step k is about to run only when exactly steps 1..k-1 have run; so a
\* step that failed or raised is the last step of its pair.
C12_StepsInOrder ==
    /\ \A j \in DOMAIN runs :
           LET steps == runs[j].steps
           IN  /\ Len(steps) <= 7
               /\ \A k \in DOMAIN steps :
                      /\ steps[k].step = k
                      /\ k < Len(steps) => steps[k].ret = "true"
               /\ runs[j].outcome = "true"
                      => Len(steps) = 7 /\ steps[7].ret = "true"
    /\ \A k \in 1..7 : pc = StepPc[k] => Len(Cur.steps) = k - 1
    /\ (pc \in {"finally", "returned"} /\ result # "true")
           => Cur.steps[Len(Cur.steps)].ret = result

\* C12 witness: one pair was given up at its third step and a later pair
\* ran all seven.
C12_Witness ==
    \E j, k \in DOMAIN runs :
        /\ j < k
        /\ Len(runs[j].steps) = 3 /\ runs[j].steps[3].ret = "false"
        /\ runs[j].outcome = "false"
        /\ Len(runs[k].steps) = 7

\* The runs that were given a FileManager, and so an output directory.
Started(r) == r.outcome # "skipped"

\* C13: any two runs started by process_multiple_files have different
\* output directories, pairs of the same two file names started within
\* the same second included.
C13_DistinctDirectories ==
    \A j, k \in DOMAIN runs :
        (j # k /\ Started(runs[j]) /\ Started(runs[k]))
            => runs[j].output_dir # runs[k].output_dir

\* C14: the status in the processing info of a run that has ended is
\* SUCCESS exactly when run_full_process returned True, and FAILED on
\* every other exit, an exception out of a step included.
C14_StatusAgrees ==
    \A j \in DOMAIN runs :
        Returned(runs[j]) =>
            /\ runs[j].info = "SUCCESS" <=> runs[j].outcome = "true"
            /\ runs[j].info = "FAILED" <=> runs[j].outcome # "true"

====
